---- MODULE Spec2Model ----
(***************************************************************************)
(* Model of nrfjprog/device/nrf5x.py: the NRF5x session object (_setup,    *)
(* _connect_to_emu, cleanup) and the command functions built on it.  One   *)
(* behaviour is one command invocation.  Every statement that calls the    *)
(* pynrfjprog driver is one step; the driver is the environment: each call *)
(* either returns or raises an APIError, and `calls` is the record of the  *)
(* calls issued so far, in order, with the outcome of each.                *)
(***************************************************************************)
EXTENDS Integers, Sequences, FiniteSets, TLC

VARIABLES
    cmd,        \* the command function that was called
    args,       \* the argparse namespace, as far as the command has read it
    nrf,        \* the NRF5x object: snr, clockspeed, api (0: attribute not set)
    api,        \* the local variable `api` of _setup / ids / version / recover
    handles,    \* the API.API objects created so far: family, open
    calls,      \* driver calls issued so far: op, handle, arguments, outcome
    mem,        \* the target's flash, byte per address
    segs,       \* the segments of the parsed hex file
    si,         \* number of segments the for-loop has finished
    regi,       \* number of CPU registers readregs has read
    pc,         \* the statement the command is about to execute
    tryrec,     \* TRUE inside the try block of recover
    rmark,      \* Len(calls) when _reset was entered (0: never entered)
    dsr,        \* the default_sys_reset parameter of _reset
    exc         \* the exception that ended the command (type "none": none)

vars == <<cmd, args, nrf, api, handles, calls, mem, segs, si, regi, pc,
          tryrec, rmark, dsr, exc>>

----------------------------------------------------------------------------
(* Values *)

None == -1                      \* Python None for an optional integer

MaxSegs == 2                    \* segments in a hex file
MemSize == 2                    \* bytes of target flash modelled
NumCpuRegs == 2                 \* members of API.CpuRegister enumerated

ErasedByte == 255               \* 0xFF
DefaultLength == 4              \* memrd default
FlashLimit == 524288            \* 0x80000

Bytes == {0, ErasedByte}
Addrs == 0 .. (MemSize - 1)

\* What the user can give for an optional integer option: nothing, 0, or 1.
OptInts == {None, 0, 1}

Commands == {"erase", "halt", "ids", "memrd", "memwr", "pinresetenable",
             "program", "readback", "readregs", "readtofile", "recover",
             "reset", "run", "verify", "version"}

\* Commands whose NRF5x is built with do_not_initialize_api = True.
NoInitCommands == {"ids", "recover", "version"}

\* Python truthiness of an optional integer: None and 0 are false.
Truthy(x) == x # None /\ x # 0

NoExc == [type |-> "none", info |-> "none"]
APIError(code) == [type |-> "APIError", info |-> code]
AssertionError(msg) == [type |-> "AssertionError", info |-> msg]

WRONG_FAMILY == "WRONG_FAMILY_FOR_DEVICE"
OtherErrCodes == {"JLINKARM_DLL_ERROR", "NOT_AVAILABLE_BECAUSE_PROTECTION"}

\* Outcomes of a driver call: it returns, or raises APIError with a code.
Outcomes == {"ok", "JLINKARM_DLL_ERROR"}
VersionOutcomes == {"ok", WRONG_FAMILY} \cup OtherErrCodes

Call(op, h, a, d, r) == [op |-> op, h |-> h, a |-> a, d |-> d, r |-> r]

\* Lengths of segment data explored: one byte, and a first byte with another.
SegLens == {1, 2}

\* All segments that fit in the modelled flash.
SeqsOver(S, n) == UNION {[1..k -> S] : k \in 0..n}
Segments == {[address |-> ad, data |-> dt] :
                ad \in Addrs, dt \in UNION {[1..k -> Bytes] : k \in SegLens}}
FitSegments == {s \in Segments : s.address + Len(s.data) <= MemSize}

\* api.read(address, length) on flash: the bytes stored there.
ReadMem(m, address, length) == [k \in 1..length |-> m[address + k - 1]]

\* What a read call hands back: the bytes when it returns, nothing when it raises.
ReadResult(m, address, length, r) ==
    IF r = "ok" THEN ReadMem(m, address, length) ELSE <<>>

\* Bitwise AND of two n-bit numbers.
RECURSIVE BitAnd(_, _, _)
BitAnd(x, y, n) ==
    IF n = 0 THEN 0
    ELSE (x % 2) * (y % 2) + 2 * BitAnd(x \div 2, y \div 2, n - 1)

\* api.write(address, data, True) on flash that took effect: a flash write
\* can only clear bits, so each byte becomes old AND new.
WriteMem(m, address, data) ==
    [x \in DOMAIN m |->
        IF x >= address /\ x < address + Len(data)
        THEN BitAnd(m[x], data[x - address + 1], 8) ELSE m[x]]

\* What a write that returned has stored: the data, or the data with the
\* last cell of the range stuck at 0 (a worn cell).
WriteFaults == {"none", "stuck"}
Stored(data, f) ==
    IF f = "stuck" THEN [data EXCEPT ![Len(data)] = 0] ELSE data

AllErased(m) == [x \in DOMAIN m |-> ErasedByte]

----------------------------------------------------------------------------
(* Control flow *)

\* An exception leaves the statement: inside recover's try block it is
\* caught by `except Exception` (the fallback starts), otherwise it ends
\* the command.
Raise(e) ==
    IF tryrec
    THEN pc' = "fb_open" /\ tryrec' = FALSE /\ exc' = exc
    ELSE pc' = "done" /\ tryrec' = tryrec /\ exc' = e

Goto(p) == pc' = p /\ tryrec' = tryrec /\ exc' = exc

\* The statement a command function runs once its NRF5x object exists.
BodyPc(c) ==
    CASE c = "erase" -> "erase"
      [] c \in {"halt", "run", "readback"} -> "onecall"
      [] c \in {"ids", "version"} -> "util_open"
      [] c = "memrd" -> "memrd"
      [] c = "memwr" -> "memwr"
      [] c \in {"pinresetenable", "readtofile"} -> "stub"
      [] c = "program" -> "prog_erase"
      [] c = "readregs" -> "readregs"
      [] c = "recover" -> "rec_try"
      [] c = "reset" -> "reset_cmd"
      [] c = "verify" -> "ver_parse"

\* The hex files a command can be given: a file Hex.Hex cannot parse, or
\* one holding the segments ss.
HexFile(ok, ss) == [ok |-> ok, segments |-> ss]
AllHexFiles ==
    {HexFile(FALSE, <<>>)} \cup
    {HexFile(TRUE, ss) : ss \in SeqsOver(FitSegments, MaxSegs)}
\* Files of at most one segment, one byte long, at address 0.
SmallHexFiles ==
    {HexFile(FALSE, <<>>)} \cup
    {HexFile(TRUE, ss) :
        ss \in SeqsOver({s \in FitSegments : s.address = 0 /\ Len(s.data) = 1}, 1)}

\* The hex files explored: every file when the connection options are left
\* out, the small ones with each combination of connection options.
HexFilesFor(n) ==
    IF n.snr = None /\ n.clockspeed = None THEN AllHexFiles ELSE SmallHexFiles

Init ==
    /\ cmd \in Commands
    /\ \E s \in OptInts, c \in OptInts :
          args = [snr |-> s, clockspeed |-> c, file |-> HexFile(TRUE, <<>>),
                  erasepage |-> None, eraseuicr |-> FALSE,
                  addr |-> 0, length |-> None, val |-> 0, flash |-> FALSE,
                  eraseall |-> FALSE, sectorserase |-> FALSE,
                  sectorsanduicrerase |-> FALSE, verify |-> FALSE,
                  debugreset |-> FALSE, pinreset |-> FALSE,
                  systemreset |-> FALSE]
    /\ nrf = [snr |-> None, clockspeed |-> None, api |-> 0]
    /\ api = 0
    /\ handles = <<>>
    /\ calls = <<>>
    /\ mem \in [Addrs -> Bytes]
    /\ segs = <<>>
    /\ si = 0
    /\ regi = 0
    /\ pc = "start"
    /\ tryrec = FALSE
    /\ rmark = 0
    /\ dsr = FALSE
    /\ exc = NoExc

----------------------------------------------------------------------------
(* NRF5x *)

\* NRF5x.__init__
Construct ==
    /\ pc = "start"
    /\ nrf' = [nrf EXCEPT !.snr = args.snr, !.clockspeed = args.clockspeed]
    /\ IF cmd \in NoInitCommands
       THEN Goto(BodyPc(cmd))
       ELSE Goto("setup_open51")
    /\ UNCHANGED <<cmd, args, api, handles, calls, mem, segs, si, regi,
                   rmark, dsr>>

\* api = API.API(family); api.open()
\* The object exists and `api` names it whether or not open() raises.
OpenNew(family, r) ==
    /\ handles' = Append(handles, [family |-> family, open |-> (r = "ok")])
    /\ api' = Len(handles) + 1
    /\ calls' = Append(calls, Call("open", Len(handles) + 1, <<>>, <<>>, r))

\* NRF5x._connect_to_emu: the driver connect call chosen for handle h.
ConnectToEmu(h, r) ==
    IF Truthy(nrf.snr) /\ Truthy(nrf.clockspeed)
    THEN Call("connect_to_emu_with_snr", h, <<nrf.snr, nrf.clockspeed>>, <<>>, r)
    ELSE IF Truthy(nrf.snr)
    THEN Call("connect_to_emu_with_snr", h, <<nrf.snr>>, <<>>, r)
    ELSE IF Truthy(nrf.clockspeed)
    THEN Call("connect_to_emu_without_snr", h, <<nrf.clockspeed>>, <<>>, r)
    ELSE Call("connect_to_emu_without_snr", h, <<>>, <<>>, r)

\* api.close() on handle h, with outcome r.
CloseHandle(h, r) ==
    /\ calls' = Append(calls, Call("close", h, <<>>, <<>>, r))
    /\ handles' = IF r = "ok" THEN [handles EXCEPT ![h].open = FALSE]
                  ELSE handles

\* _setup, lines 74-76
SetupOpen51 ==
    /\ pc = "setup_open51"
    /\ \E r \in Outcomes :
          /\ OpenNew("NRF51", r)
          /\ IF r = "ok" THEN Goto("setup_emu51") ELSE Raise(APIError(r))
    /\ UNCHANGED <<cmd, args, nrf, mem, segs, si, regi, rmark, dsr>>

\* _setup, line 77
SetupEmu51 ==
    /\ pc = "setup_emu51"
    /\ \E r \in Outcomes :
          /\ calls' = Append(calls, ConnectToEmu(api, r))
          /\ IF r = "ok" THEN Goto("setup_version") ELSE Raise(APIError(r))
    /\ UNCHANGED <<cmd, args, nrf, api, handles, mem, segs, si, regi, rmark, dsr>>

\* Variant: the handle is not closed before the NRF52 one is opened.
VersionHandlerNoClose(code) ==
    IF code = WRONG_FAMILY THEN "setup_open52" ELSE "raise"

\* Variant: every APIError is taken for a family mismatch.
VersionHandlerAny(code) == "setup_close51"

\* The except clause of _setup: where an APIError from read_device_version
\* leads.  "raise" stands for `raise e`.
VersionHandler(code) ==
    IF code = WRONG_FAMILY THEN "setup_close51" ELSE "raise"

\* _setup, lines 79-83 and 88-89
SetupVersion ==
    /\ pc = "setup_version"
    /\ \E r \in VersionOutcomes :
          /\ calls' = Append(calls, Call("read_device_version", api, <<>>, <<>>, r))
          /\ IF r = "ok" THEN Goto("setup_dev")
             ELSE IF VersionHandler(r) = "raise" THEN Raise(APIError(r))
             ELSE Goto(VersionHandler(r))
    /\ UNCHANGED <<cmd, args, nrf, api, handles, mem, segs, si, regi, rmark, dsr>>

\* _setup, line 84
SetupClose51 ==
    /\ pc = "setup_close51"
    /\ \E r \in Outcomes :
          /\ CloseHandle(api, r)
          /\ IF r = "ok" THEN Goto("setup_open52") ELSE Raise(APIError(r))
    /\ UNCHANGED <<cmd, args, nrf, api, mem, segs, si, regi, rmark, dsr>>

\* Variant: the probe is not connected again on the NRF52 handle.
AfterReopenNoConnect == "setup_dev"

\* _setup, lines 86-87: the statement after the NRF52 handle is opened.
AfterReopen == "setup_emu52"

\* _setup, lines 85-86
SetupOpen52 ==
    /\ pc = "setup_open52"
    /\ \E r \in Outcomes :
          /\ OpenNew("NRF52", r)
          /\ IF r = "ok" THEN Goto(AfterReopen) ELSE Raise(APIError(r))
    /\ UNCHANGED <<cmd, args, nrf, mem, segs, si, regi, rmark, dsr>>

\* _setup, line 87
SetupEmu52 ==
    /\ pc = "setup_emu52"
    /\ \E r \in Outcomes :
          /\ calls' = Append(calls, ConnectToEmu(api, r))
          /\ IF r = "ok" THEN Goto("setup_dev") ELSE Raise(APIError(r))
    /\ UNCHANGED <<cmd, args, nrf, api, handles, mem, segs, si, regi, rmark, dsr>>

\* _setup, lines 91-92, and the caller's use of the value returned:
\* __init__ stores it in self.api (line 64), recover drops it (line 251).
SetupDev ==
    /\ pc = "setup_dev"
    /\ \E r \in Outcomes :
          /\ calls' = Append(calls, Call("connect_to_device", api, <<>>, <<>>, r))
          /\ IF r # "ok"
             THEN Raise(APIError(r)) /\ nrf' = nrf
             ELSE IF cmd = "recover"
             THEN Goto("onecall") /\ nrf' = nrf
             ELSE Goto(BodyPc(cmd)) /\ nrf' = [nrf EXCEPT !.api = api]
    /\ UNCHANGED <<cmd, args, api, handles, mem, segs, si, regi, rmark, dsr>>

\* Variant: cleanup works on the first handle created.
CleanupHandleFirst ==
    CHOOSE h \in DOMAIN handles : \A g \in DOMAIN handles : h <= g

\* NRF5x.cleanup: the handle it works on, self.api.
CleanupHandle == nrf.api

\* NRF5x.cleanup, line 111
CleanupDisconnect ==
    /\ pc = "cleanup"
    /\ \E r \in Outcomes :
          /\ calls' = Append(calls, Call("disconnect_from_emu", CleanupHandle, <<>>, <<>>, r))
          /\ IF r = "ok" THEN Goto("cleanup_close") ELSE Raise(APIError(r))
    /\ UNCHANGED <<cmd, args, nrf, api, handles, mem, segs, si, regi, rmark, dsr>>

\* NRF5x.cleanup, line 112; the command function returns after it.
CleanupClose ==
    /\ pc = "cleanup_close"
    /\ \E r \in Outcomes :
          /\ CloseHandle(CleanupHandle, r)
          /\ IF r = "ok" THEN Goto("done") ELSE Raise(APIError(r))
    /\ UNCHANGED <<cmd, args, nrf, api, mem, segs, si, regi, rmark, dsr>>

----------------------------------------------------------------------------
(* Commands with a single driver call *)

\* The erase primitive the erase command issues (lines 124-129).
EraseChoice(a) ==
    IF Truthy(a.erasepage) THEN "erase_page"
    ELSE IF a.eraseuicr THEN "erase_uicr"
    ELSE "erase_all"

\* Flash after an erase primitive took effect.  The modelled flash lies in
\* the first page; the UICR is outside it.
EraseEffect(m, op) == IF op = "erase_uicr" THEN m ELSE AllErased(m)

\* erase, lines 120-131
Erase ==
    /\ pc = "erase"
    /\ \E p \in OptInts, u \in BOOLEAN, r \in Outcomes :
          LET a == [args EXCEPT !.erasepage = p, !.eraseuicr = u]
              op == EraseChoice(a)
          IN /\ args' = a
             /\ calls' = Append(calls,
                   Call(op, nrf.api,
                        IF op = "erase_page" THEN <<a.erasepage>> ELSE <<>>,
                        <<>>, r))
             /\ IF r = "ok"
                THEN mem' = EraseEffect(mem, op) /\ Goto("cleanup")
                ELSE mem' = mem /\ Raise(APIError(r))
    /\ UNCHANGED <<cmd, nrf, api, handles, segs, si, regi, rmark, dsr>>

\* The driver operation of a one-call command.
OneCallOp(c) ==
    CASE c = "halt" -> "halt"
      [] c = "run" -> "go"
      [] c = "readback" -> "readback_protect"
      [] c = "recover" -> "recover"

\* halt (line 137), run (line 274), readback (line 224) and line 252 of
\* recover: one call on nrf.api, then cleanup.
OneCall ==
    /\ pc = "onecall"
    /\ IF nrf.api = 0
       THEN /\ Raise([type |-> "AttributeError", info |-> "api"])
            /\ UNCHANGED <<calls, mem>>
       ELSE \E r \in Outcomes :
          /\ calls' = Append(calls, Call(OneCallOp(cmd), nrf.api, <<>>, <<>>, r))
          /\ IF r = "ok"
             THEN /\ mem' = IF cmd = "recover" THEN AllErased(mem) ELSE mem
                  /\ Goto("cleanup")
             ELSE mem' = mem /\ Raise(APIError(r))
    /\ UNCHANGED <<cmd, args, nrf, api, handles, segs, si, regi, rmark, dsr>>

\* ids (lines 145-146) and version (lines 297-298)
UtilOpen ==
    /\ pc = "util_open"
    /\ \E r \in Outcomes :
          /\ OpenNew("NRF51", r)
          /\ IF r = "ok" THEN Goto("util_call") ELSE Raise(APIError(r))
    /\ UNCHANGED <<cmd, args, nrf, mem, segs, si, regi, rmark, dsr>>

\* ids (lines 148-149) and version (lines 300-302)
UtilCall ==
    /\ pc = "util_call"
    /\ \E r \in Outcomes :
          /\ calls' = Append(calls,
                Call(IF cmd = "ids" THEN "enum_emu_snr" ELSE "dll_version",
                     api, <<>>, <<>>, r))
          /\ IF r = "ok" THEN Goto("util_close") ELSE Raise(APIError(r))
    /\ UNCHANGED <<cmd, args, nrf, api, handles, mem, segs, si, regi, rmark, dsr>>

\* ids (line 151) and version (line 304)
UtilClose ==
    /\ pc = "util_close"
    /\ \E r \in Outcomes :
          /\ CloseHandle(api, r)
          /\ IF r = "ok" THEN Goto("done") ELSE Raise(APIError(r))
    /\ UNCHANGED <<cmd, args, nrf, api, mem, segs, si, regi, rmark, dsr>>

\* memrd, lines 157-160
ReadLength(a) == IF Truthy(a.length) THEN a.length ELSE DefaultLength

\* memrd, lines 153-167
Memrd ==
    /\ pc = "memrd"
    /\ \E l \in {None, 0, 1, -2} :
          LET a == [args EXCEPT !.length = l]
          IN /\ args' = a
             /\ IF ~(ReadLength(a) > 0)
                THEN /\ Raise(AssertionError("Length (number of bytes to read) must be nonnegative."))
                     /\ calls' = calls
                ELSE \E r \in Outcomes :
                     /\ calls' = Append(calls,
                           Call("read", nrf.api, <<a.addr, ReadLength(a)>>, <<>>, r))
                     /\ IF r = "ok" THEN Goto("cleanup") ELSE Raise(APIError(r))
    /\ UNCHANGED <<cmd, nrf, api, handles, mem, segs, si, regi, rmark, dsr>>

\* The bytes of a 32-bit word that fall in the modelled flash, low byte first.
WordBytes(v) == [k \in 1..(IF MemSize < 4 THEN MemSize ELSE 4) |->
                    (v \div (256 ^ (k - 1))) % 256]

\* Variant: without the flash option the address is not checked.
MemwrChoiceNoAssert(a) == IF a.flash THEN "flash" ELSE "ram"

\* memwr, lines 173-177: "flash" for line 174, "assert" for the failing
\* assertion of line 176, "ram" for line 177.
MemwrChoice(a) ==
    IF a.flash THEN "flash"
    ELSE IF ~(a.addr >= FlashLimit) THEN "assert"
    ELSE "ram"

\* memwr, lines 169-179
Memwr ==
    /\ pc = "memwr"
    /\ \E f \in BOOLEAN, ad \in {0, FlashLimit - 1, FlashLimit}, v \in {0, 1} :
          LET a == [args EXCEPT !.flash = f, !.addr = ad, !.val = v]
          IN /\ args' = a
             /\ IF MemwrChoice(a) = "assert"
                THEN /\ Raise(AssertionError("The --flash option needs to be specified when writing FLASH."))
                     /\ UNCHANGED <<calls, mem>>
                ELSE \E r \in Outcomes :
                     /\ calls' = Append(calls,
                           Call("write_u32", nrf.api,
                                <<a.addr, a.val, IF MemwrChoice(a) = "flash" THEN 1 ELSE 0>>,
                                <<>>, r))
                     /\ IF r = "ok"
                        THEN /\ mem' = IF a.addr \in DOMAIN mem
                                       THEN WriteMem(mem, a.addr, WordBytes(a.val))
                                       ELSE mem
                             /\ Goto("cleanup")
                        ELSE mem' = mem /\ Raise(APIError(r))
    /\ UNCHANGED <<cmd, nrf, api, handles, segs, si, regi, rmark, dsr>>

\* pinresetenable (line 185: the name `false` is not defined) and
\* readtofile (line 242): the statement before cleanup always raises.
Stub ==
    /\ pc = "stub"
    /\ IF cmd = "pinresetenable"
       THEN Raise([type |-> "NameError", info |-> "false"])
       ELSE Raise(AssertionError("Not implemented in nrf5x.py yet."))
    /\ UNCHANGED <<cmd, args, nrf, api, handles, calls, mem, segs, si, regi,
                   rmark, dsr>>

\* readregs, lines 232-235
ReadRegs ==
    /\ pc = "readregs"
    /\ IF regi = NumCpuRegs
       THEN Goto("cleanup") /\ UNCHANGED <<calls, regi>>
       ELSE \E r \in Outcomes :
          /\ calls' = Append(calls, Call("read_cpu_register", nrf.api, <<regi>>, <<>>, r))
          /\ IF r = "ok"
             THEN regi' = regi + 1 /\ Goto("readregs")
             ELSE regi' = regi /\ Raise(APIError(r))
    /\ UNCHANGED <<cmd, args, nrf, api, handles, mem, segs, si, rmark, dsr>>

----------------------------------------------------------------------------
(* program and verify *)

\* Variant: the sectors-and-UICR option is accepted and does nothing.
ProgEraseChoiceSilent(a) ==
    IF a.eraseall THEN "erase_all"
    ELSE IF a.sectorserase THEN "assert"
    ELSE "none"

\* program, lines 193-198: "assert" for either failing assertion.
ProgEraseChoice(a) ==
    IF a.eraseall THEN "erase_all"
    ELSE IF a.sectorserase THEN "assert"
    ELSE IF a.sectorsanduicrerase THEN "assert"
    ELSE "none"

\* program, lines 193-198
ProgErase ==
    /\ pc = "prog_erase"
    /\ \E ea \in BOOLEAN, se \in BOOLEAN, su \in BOOLEAN :
          LET a == [args EXCEPT !.eraseall = ea,
                                !.sectorserase = ~ea /\ se,
                                !.sectorsanduicrerase = ~ea /\ ~se /\ su]
          IN /\ args' = a
             /\ CASE ProgEraseChoice(a) = "erase_all" ->
                       \E r \in Outcomes :
                          /\ calls' = Append(calls, Call("erase_all", nrf.api, <<>>, <<>>, r))
                          /\ IF r = "ok"
                             THEN mem' = AllErased(mem) /\ Goto("prog_parse")
                             ELSE mem' = mem /\ Raise(APIError(r))
                  [] ProgEraseChoice(a) = "assert" ->
                       /\ Raise(AssertionError("Not implemented in nrf5x.py yet."))
                       /\ UNCHANGED <<calls, mem>>
                  [] ProgEraseChoice(a) = "none" ->
                       /\ Goto("prog_parse")
                       /\ UNCHANGED <<calls, mem>>
    /\ UNCHANGED <<cmd, nrf, api, handles, segs, si, regi, rmark, dsr>>

\* Hex.Hex(hex_file_path): the segments of the file, or a parse error.
\* program, lines 200-204, and verify, lines 282-284.
ParseHex ==
    /\ pc \in {"prog_parse", "ver_parse"}
    /\ \E f \in HexFilesFor(nrf) :
          /\ args' = [args EXCEPT !.file = f]
          /\ IF ~f.ok
             THEN /\ Raise([type |-> "HexError", info |-> "malformed"])
                  /\ segs' = segs
             ELSE /\ segs' = f.segments
                  /\ IF pc = "prog_parse"
                     THEN Goto(IF Len(segs') = 0 THEN "call_reset" ELSE "prog_read")
                     ELSE Goto(IF Len(segs') = 0 THEN "cleanup" ELSE "ver_read")
    /\ UNCHANGED <<cmd, nrf, api, handles, calls, mem, si, regi, rmark, dsr>>

\* Variant: only the first byte read is compared with 0xFF.
IsErasedFirst(read_data) == read_data[1] = ErasedByte

\* line 207: read_data == [0xFF] * len(read_data)
IsErased(read_data) ==
    read_data = [k \in 1..Len(read_data) |-> ErasedByte]

\* Variant: only the first byte read is compared with the data.
DataMatchesFirst(read_data, data) == read_data[1] = data[1]

\* lines 211 and 287: read_data == segment.data
DataMatches(read_data, data) == read_data = data

\* program, lines 206-207
ProgRead ==
    /\ pc = "prog_read"
    /\ LET seg == segs[si + 1]
       IN \E r \in Outcomes :
          /\ calls' = Append(calls,
                Call("read", nrf.api, <<seg.address, Len(seg.data)>>,
                     ReadResult(mem, seg.address, Len(seg.data), r), r))
          /\ IF r # "ok" THEN Raise(APIError(r))
             ELSE IF ~IsErased(ReadMem(mem, seg.address, Len(seg.data)))
             THEN Raise(AssertionError("FLASH being written to must be erased."))
             ELSE Goto("prog_write")
    /\ UNCHANGED <<cmd, args, nrf, api, handles, mem, segs, si, regi, rmark, dsr>>

\* Variant: the verify option is ignored.
AfterWriteNoVerify(verify, done, total) ==
    IF done = total THEN "call_reset" ELSE "prog_read"

\* Variant: without verify the loop is left after the first write.
AfterWriteEarlyReset(verify, done, total) ==
    IF verify THEN "prog_verify" ELSE "call_reset"

\* Where the for-loop of program goes after the write of a segment.
AfterWrite(verify, done, total) ==
    IF verify THEN "prog_verify"
    ELSE IF done = total THEN "call_reset" ELSE "prog_read"

\* program, lines 208-209
ProgWrite ==
    /\ pc = "prog_write"
    /\ LET seg == segs[si + 1]
       IN \E r \in Outcomes, f \in WriteFaults, v \in BOOLEAN :
          /\ si > 0 => v = args.verify
          /\ calls' = Append(calls,
                Call("write", nrf.api, <<seg.address, 1>>, seg.data, r))
          /\ IF r # "ok"
             THEN /\ Raise(APIError(r))
                  /\ f = "none" /\ v = args.verify
                  /\ UNCHANGED <<mem, args, si>>
             ELSE /\ mem' = WriteMem(mem, seg.address, Stored(seg.data, f))
                  /\ args' = [args EXCEPT !.verify = v]
                  /\ si' = IF AfterWrite(v, si + 1, Len(segs)) = "prog_verify"
                           THEN si ELSE si + 1
                  /\ Goto(AfterWrite(v, si + 1, Len(segs)))
    /\ UNCHANGED <<cmd, nrf, api, handles, segs, regi, rmark, dsr>>

\* program, lines 210-211
ProgVerify ==
    /\ pc = "prog_verify"
    /\ LET seg == segs[si + 1]
       IN \E r \in Outcomes :
          /\ calls' = Append(calls,
                Call("read", nrf.api, <<seg.address, Len(seg.data)>>,
                     ReadResult(mem, seg.address, Len(seg.data), r), r))
          /\ IF r # "ok" THEN Raise(APIError(r)) /\ si' = si
             ELSE IF ~DataMatches(ReadMem(mem, seg.address, Len(seg.data)), seg.data)
             THEN /\ Raise(AssertionError("Verify failed. Data readback from memory does not match data written."))
                  /\ si' = si
             ELSE /\ si' = si + 1
                  /\ Goto(IF si + 1 = Len(segs) THEN "call_reset" ELSE "prog_read")
    /\ UNCHANGED <<cmd, args, nrf, api, handles, mem, segs, regi, rmark, dsr>>

\* verify, lines 285-289
VerRead ==
    /\ pc = "ver_read"
    /\ LET seg == segs[si + 1]
       IN \E r \in Outcomes :
          /\ calls' = Append(calls,
                Call("read", nrf.api, <<seg.address, Len(seg.data)>>,
                     ReadResult(mem, seg.address, Len(seg.data), r), r))
          /\ IF r # "ok" THEN Raise(APIError(r)) /\ si' = si
             ELSE IF ~DataMatches(ReadMem(mem, seg.address, Len(seg.data)), seg.data)
             THEN /\ Raise(AssertionError("Verify failed. Data readback from memory does not match data written."))
                  /\ si' = si
             ELSE /\ si' = si + 1
                  /\ Goto(IF si + 1 = Len(segs) THEN "cleanup" ELSE "ver_read")
    /\ UNCHANGED <<cmd, args, nrf, api, handles, mem, segs, regi, rmark, dsr>>

\* verify, lines 285-289, on memory m with every read returning: "ok" when
\* the loop ends, "failed" at the first segment whose assertion fails.
RECURSIVE VerifyFrom(_, _, _)
VerifyFrom(m, ss, k) ==
    IF k > Len(ss) THEN "ok"
    ELSE IF ~DataMatches(ReadMem(m, ss[k].address, Len(ss[k].data)), ss[k].data)
    THEN "failed"
    ELSE VerifyFrom(m, ss, k + 1)

VerifyOnly(m, ss) == VerifyFrom(m, ss, 1)

----------------------------------------------------------------------------
(* _reset *)

\* The default_sys_reset argument: reset passes True (line 266), program
\* passes nothing (line 216).
DefaultSysReset(c) == c = "reset"

\* reset, lines 262-266, and program, lines 213-216: the call of _reset.
CallReset ==
    /\ pc \in {"reset_cmd", "call_reset"}
    /\ dsr' = DefaultSysReset(cmd)
    /\ rmark' = Len(calls)
    /\ Goto("reset_prim")
    /\ UNCHANGED <<cmd, args, nrf, api, handles, calls, mem, segs, si, regi>>

\* Variant: the pin-reset branch issues the debug reset.
ResetChoiceSwapped(a, default_sys_reset) ==
    IF a.debugreset THEN "debug_reset"
    ELSE IF a.pinreset THEN "debug_reset"
    ELSE IF a.systemreset \/ default_sys_reset THEN "sys_reset"
    ELSE "none"

\* _reset, lines 320, 323, 326: the branch taken.
ResetChoice(a, default_sys_reset) ==
    IF a.debugreset THEN "debug_reset"
    ELSE IF a.pinreset THEN "pin_reset"
    ELSE IF a.systemreset \/ default_sys_reset THEN "sys_reset"
    ELSE "none"

\* _reset, lines 320-327: the reset primitive of the branch taken.
ResetPrim ==
    /\ pc = "reset_prim"
    /\ \E d \in BOOLEAN, p \in BOOLEAN, s \in BOOLEAN :
          LET a == [args EXCEPT !.debugreset = d,
                                !.pinreset = ~d /\ p,
                                !.systemreset = ~d /\ ~p /\ s]
          IN /\ args' = a
             /\ IF ResetChoice(a, dsr) = "none"
                THEN Goto("cleanup") /\ calls' = calls
                ELSE \E r \in Outcomes :
                     /\ calls' = Append(calls,
                           Call(ResetChoice(a, dsr), nrf.api, <<>>, <<>>, r))
                     /\ IF r = "ok" THEN Goto("reset_go") ELSE Raise(APIError(r))
    /\ UNCHANGED <<cmd, nrf, api, handles, mem, segs, si, regi, rmark, dsr>>

\* _reset, lines 322, 325, 328: nrf.api.go(), then the caller's cleanup.
ResetGo ==
    /\ pc = "reset_go"
    /\ \E r \in Outcomes :
          /\ calls' = Append(calls, Call("go", nrf.api, <<>>, <<>>, r))
          /\ IF r = "ok" THEN Goto("cleanup") ELSE Raise(APIError(r))
    /\ UNCHANGED <<cmd, args, nrf, api, handles, mem, segs, si, regi, rmark, dsr>>

----------------------------------------------------------------------------
(* recover *)

SetupParams == 0        \* parameters of _setup after self
RecoverSetupArgs == 1   \* arguments recover passes to _setup

\* Variant: _setup accepts the argument recover passes.
SetupCallBindsAlways == TRUE

\* Whether the call nrf._setup(args) binds to the signature of _setup.
SetupCallBinds == RecoverSetupArgs = SetupParams

\* recover, lines 246-251: enter the try block and call nrf._setup(args).
\* A call that does not bind raises TypeError before _setup runs; the
\* except clause catches it.
RecTry ==
    /\ pc = "rec_try"
    /\ IF SetupCallBinds
       THEN pc' = "setup_open51" /\ tryrec' = TRUE
       ELSE pc' = "fb_open" /\ tryrec' = FALSE
    /\ UNCHANGED <<cmd, args, nrf, api, handles, calls, mem, segs, si, regi,
                   rmark, dsr, exc>>

\* Variant: the fallback opens the default family.
FallbackFamilyNRF51 == "NRF51"

\* recover, line 255: the family of the fallback's handle.
FallbackFamily == "NRF52"

\* recover, lines 255-256
FbOpen ==
    /\ pc = "fb_open"
    /\ \E r \in Outcomes :
          /\ OpenNew(FallbackFamily, r)
          /\ IF r = "ok" THEN Goto("fb_emu") ELSE Raise(APIError(r))
    /\ UNCHANGED <<cmd, args, nrf, mem, segs, si, regi, rmark, dsr>>

\* recover, line 257
FbEmu ==
    /\ pc = "fb_emu"
    /\ \E r \in Outcomes :
          /\ calls' = Append(calls, ConnectToEmu(api, r))
          /\ IF r = "ok" THEN Goto("fb_recover") ELSE Raise(APIError(r))
    /\ UNCHANGED <<cmd, args, nrf, api, handles, mem, segs, si, regi, rmark, dsr>>

\* recover, line 258
FbRecover ==
    /\ pc = "fb_recover"
    /\ \E r \in Outcomes :
          /\ calls' = Append(calls, Call("recover", api, <<>>, <<>>, r))
          /\ IF r = "ok"
             THEN mem' = AllErased(mem) /\ Goto("fb_disconnect")
             ELSE mem' = mem /\ Raise(APIError(r))
    /\ UNCHANGED <<cmd, args, nrf, api, handles, segs, si, regi, rmark, dsr>>

\* recover, line 259
FbDisconnect ==
    /\ pc = "fb_disconnect"
    /\ \E r \in Outcomes :
          /\ calls' = Append(calls, Call("disconnect_from_emu", api, <<>>, <<>>, r))
          /\ IF r = "ok" THEN Goto("fb_close") ELSE Raise(APIError(r))
    /\ UNCHANGED <<cmd, args, nrf, api, handles, mem, segs, si, regi, rmark, dsr>>

\* recover, line 260
FbClose ==
    /\ pc = "fb_close"
    /\ \E r \in Outcomes :
          /\ CloseHandle(api, r)
          /\ IF r = "ok" THEN Goto("done") ELSE Raise(APIError(r))
    /\ UNCHANGED <<cmd, args, nrf, api, mem, segs, si, regi, rmark, dsr>>

----------------------------------------------------------------------------
Next ==
    \/ Construct
    \/ SetupOpen51 \/ SetupEmu51 \/ SetupVersion \/ SetupClose51
    \/ SetupOpen52 \/ SetupEmu52 \/ SetupDev
    \/ CleanupDisconnect \/ CleanupClose
    \/ Erase \/ OneCall \/ UtilOpen \/ UtilCall \/ UtilClose
    \/ Memrd \/ Memwr \/ Stub \/ ReadRegs
    \/ ProgErase \/ ParseHex \/ ProgRead \/ ProgWrite \/ ProgVerify \/ VerRead
    \/ CallReset \/ ResetPrim \/ ResetGo
    \/ RecTry \/ FbOpen \/ FbEmu \/ FbRecover \/ FbDisconnect \/ FbClose

Spec == Init /\ [][Next]_vars

----------------------------------------------------------------------------
(* Properties *)

IsDone == pc = "done"
Succeeded == pc = "done" /\ exc = NoExc

SessionCommands == Commands \ {"ids", "version"}
ConnectOps == {"connect_to_emu_with_snr", "connect_to_emu_without_snr"}
ResetOps == {"debug_reset", "pin_reset", "sys_reset"}

NotErased == AssertionError("FLASH being written to must be erased.")
VerifyFailed ==
    AssertionError("Verify failed. Data readback from memory does not match data written.")

Idx(op) == {i \in DOMAIN calls : calls[i].op = op}
OpenHandles == {h \in DOMAIN handles : handles[h].open}
\* Handles whose open() returned.
OpenedHandles == {h \in DOMAIN handles :
                     \E i \in Idx("open") : calls[i].h = h /\ calls[i].r = "ok"}
CloseCalls(h) == Cardinality({i \in Idx("close") : calls[i].h = h})

\* _setup has returned to __init__ (self.api is set), or has raised.
SetupReturned == nrf.api # 0
SetupRaised == cmd \notin NoInitCommands /\ pc = "done" /\ nrf.api = 0

\* The handle of the Session the command works on: self.api, or in recover
\* the handle of the fallback (0: none yet).
SessionHandle == IF cmd = "recover" THEN api ELSE nrf.api

\* C1: when a command that opened a Session ends, on the normal path or on
\* any failure after the Session was opened, close has been called exactly
\* once on the Session's handle.
C1_CloseExactlyOnce ==
    (IsDone /\ cmd \in SessionCommands /\ SessionHandle \in OpenedHandles)
        => CloseCalls(SessionHandle) = 1

\* C2: when _setup returns exactly one driver handle is open, and when it
\* raises no driver handle is open.
C2_SetupLeavesOneOrNone ==
    /\ (cmd \notin NoInitCommands /\ pc = BodyPc(cmd)) => Cardinality(OpenHandles) = 1
    /\ SetupRaised => Cardinality(OpenHandles) = 0

\* C3: at every point of every command at most one driver handle is open
\* (opened and not yet closed).
C3_AtMostOneOpen == Cardinality(OpenHandles) <= 1

\* C3 witness: the NRF52 handle of _setup is open and the NRF51 handle,
\* opened before it, is closed.
C3_Witness ==
    /\ cmd \notin NoInitCommands
    /\ Len(handles) = 2
    /\ ~handles[1].open /\ handles[2].open

\* The version query of _setup failed with WRONG_FAMILY and _setup returned.
FamilyRetried ==
    /\ SetupReturned
    /\ Len(calls) >= 3
    /\ calls[3].op = "read_device_version"
    /\ calls[3].r = WRONG_FAMILY

\* C4: after a WRONG_FAMILY version query and a successful NRF52 retry, the
\* calls of _setup are open(1), connect(1), version(1), close(1), open(2),
\* connect(2), connect_to_device(2): the NRF51 handle is closed once, before
\* the NRF52 handle is opened, and no third handle is ever created.
C4_FamilyRetry ==
    FamilyRetried =>
        /\ Len(calls) >= 7
        /\ [i \in 1..7 |-> calls[i].op] \in
              {<<"open", c1, "read_device_version", "close", "open", c2, "connect_to_device">> :
                  c1 \in ConnectOps, c2 \in ConnectOps}
        /\ [i \in 1..7 |-> calls[i].h] = <<1, 1, 1, 1, 2, 2, 2>>
        /\ handles[1].family = "NRF51" /\ handles[2].family = "NRF52"
        /\ Len(handles) = 2
        /\ Cardinality({i \in Idx("close") : calls[i].h = 1}) = 1
        /\ Cardinality(Idx("open")) = 2
        /\ Cardinality(Idx("read_device_version")) = 1

C4_Witness == FamilyRetried /\ Succeeded

\* C5: a version query that fails with an error other than WRONG_FAMILY is
\* the last driver call of the command: the command ends with that same
\* APIError, only the NRF51 handle was ever created, and connect_to_device
\* was never called.
C5_OtherErrorPropagates ==
    \A i \in Idx("read_device_version") :
        calls[i].r \in OtherErrCodes =>
            /\ i = Len(calls)
            /\ pc = "done"
            /\ exc = APIError(calls[i].r)
            /\ Len(handles) = 1 /\ handles[1].family = "NRF51"
            /\ Idx("connect_to_device") = {}

C5_Witness ==
    /\ pc = "done"
    /\ calls # <<>>
    /\ calls[Len(calls)].op = "read_device_version"
    /\ calls[Len(calls)].r = "NOT_AVAILABLE_BECAUSE_PROTECTION"

\* The connect call that matches the options given on the command line,
\* an option being given when it is not None.
MatchingConnect(snr, clockspeed) ==
    IF snr # None /\ clockspeed # None
    THEN [op |-> "connect_to_emu_with_snr", a |-> <<snr, clockspeed>>]
    ELSE IF snr # None
    THEN [op |-> "connect_to_emu_with_snr", a |-> <<snr>>]
    ELSE IF clockspeed # None
    THEN [op |-> "connect_to_emu_without_snr", a |-> <<clockspeed>>]
    ELSE [op |-> "connect_to_emu_without_snr", a |-> <<>>]

\* C6: every probe connect issued, on the NRF51 handle or on the NRF52
\* handle, is the driver call that matches the combination of serial number
\* and clock speed given.
C6_MatchingConnectCall ==
    \A i \in DOMAIN calls :
        calls[i].op \in ConnectOps =>
            /\ calls[i].op = MatchingConnect(args.snr, args.clockspeed).op
            /\ Len(calls[i].a) = Len(MatchingConnect(args.snr, args.clockspeed).a)
            /\ calls[i].a = MatchingConnect(args.snr, args.clockspeed).a

AllFF(d) == \A k \in DOMAIN d : d[k] = 255
Differ(d, e) == Len(d) # Len(e) \/ \E k \in DOMAIN d : d[k] # e[k]
OkWrites == {i \in Idx("write") : calls[i].r = "ok"}

\* A read of program that is the pre-read of a segment: with verify on, the
\* read that follows a write is the verify read of the segment written.
PreRead(i) ==
    /\ calls[i].op = "read"
    /\ args.verify => calls[i - 1].op # "write"

\* C7: in program, a pre-read that returns a byte other than 0xFF is the
\* last driver call: the command ends with the not-erased error.  Every
\* write issued follows a read of its own range that returned only 0xFF,
\* and when the command ends with the not-erased error the segments before
\* the failing one have each been written once, in order.
C7_NotErasedStops ==
    cmd = "program" =>
        /\ \A i \in Idx("read") :
              (PreRead(i) /\ calls[i].r = "ok" /\ ~AllFF(calls[i].d)) =>
                  /\ i = Len(calls)
                  /\ pc = "done"
                  /\ exc = NotErased
        /\ \A i \in Idx("write") :
              /\ calls[i - 1].op = "read"
              /\ calls[i - 1].r = "ok"
              /\ calls[i - 1].a = <<calls[i].a[1], Len(calls[i].d)>>
              /\ AllFF(calls[i - 1].d)
        /\ exc = NotErased =>
              /\ Cardinality(Idx("write")) = si
              /\ \A j \in 1..si : \E i \in OkWrites :
                    /\ calls[i].a[1] = segs[j].address
                    /\ calls[i].d = segs[j].data
                    /\ Cardinality({k \in OkWrites : k <= i}) = j

C7_Witness ==
    /\ cmd = "program"
    /\ exc = NotErased
    /\ si = 1
    /\ Len(segs) = 2

\* C8: in program with verify on, the call after every write that returned
\* is a read of the range written, and when that read returns bytes that
\* differ from the data in any position the command ends there with the
\* verification error; with verify off every read is a pre-read, so there
\* is at most one read more than there are writes.
C8_VerifyAfterWrite ==
    cmd = "program" =>
        /\ \A i \in OkWrites :
              args.verify =>
                  /\ i = Len(calls) => pc = "prog_verify"
                  /\ i < Len(calls) =>
                        /\ calls[i + 1].op = "read"
                        /\ calls[i + 1].a = <<calls[i].a[1], Len(calls[i].d)>>
                        /\ (calls[i + 1].r = "ok" /\ Differ(calls[i + 1].d, calls[i].d)) =>
                              /\ i + 1 = Len(calls)
                              /\ pc = "done"
                              /\ exc = VerifyFailed
        /\ ~args.verify =>
              /\ pc # "prog_verify"
              /\ exc # VerifyFailed
              /\ Cardinality(Idx("read")) <= Cardinality(OkWrites) + 1

C8_Witness ==
    /\ cmd = "program"
    /\ exc = VerifyFailed
    /\ Len(calls[Len(calls)].d) = 2
    /\ calls[Len(calls)].d[1] = calls[Len(calls) - 1].d[1]

\* Two segments whose address ranges have no byte in common.
Apart(s, t) ==
    \/ s.address + Len(s.data) <= t.address
    \/ t.address + Len(t.data) <= s.address
Disjoint(ss) == \A i \in DOMAIN ss, j \in DOMAIN ss : i < j => Apart(ss[i], ss[j])

ProgramVerified == cmd = "program" /\ Succeeded /\ args.verify

\* C9 as stated: after program with verify on has completed, verify on the
\* same segments against the memory it left succeeds.
C9_RoundTrip ==
    ProgramVerified => VerifyOnly(mem, segs) = "ok"

\* C9 amended: the same, for segments with pairwise disjoint address ranges.
C9_RoundTripDisjoint ==
    (ProgramVerified /\ Disjoint(segs)) => VerifyOnly(mem, segs) = "ok"

C9_Witness ==
    /\ ProgramVerified
    /\ Len(segs) = 2
    /\ Disjoint(segs)
    /\ \E a \in DOMAIN mem : mem[a] # ErasedByte

\* _reset has just returned to its caller.
ResetReturned == rmark > 0 /\ pc = "cleanup"
\* The driver calls issued since _reset was entered.
ResetCalls == SubSeq(calls, rmark + 1, Len(calls))
ResetCallOps == [i \in DOMAIN ResetCalls |-> ResetCalls[i].op]
NoResetMode == ~args.debugreset /\ ~args.pinreset /\ ~args.systemreset
ExpectedReset ==
    IF args.debugreset THEN "debug_reset"
    ELSE IF args.pinreset THEN "pin_reset"
    ELSE "sys_reset"

CallOps == [i \in DOMAIN calls |-> calls[i].op]
CallHandles == [i \in DOMAIN calls |-> calls[i].h]
AllReturned == \A i \in DOMAIN calls : calls[i].r = "ok"
IsPrefix(s, t) == Len(s) <= Len(t) /\ \A i \in DOMAIN s : s[i] = t[i]

\* C11: a recover during which no driver call raises is done by the primary
\* path: the calls are those of _setup on the NRF51 handle, then recover,
\* disconnect and close on that handle, and no NRF52 handle is opened.
C11_PrimaryRecovers ==
    (cmd = "recover" /\ Succeeded /\ AllReturned) =>
        /\ CallOps \in {<<"open", c, "read_device_version", "connect_to_device",
                          "recover", "disconnect_from_emu", "close">> : c \in ConnectOps}
        /\ Len(handles) = 1
        /\ handles[1].family = "NRF51"

\* The calls of the fallback of recover, in order.
FallbackOps ==
    {<<"open", c, "recover", "disconnect_from_emu", "close">> : c \in ConnectOps}

MalformedImage == exc.type = "HexError"

\* C13: when Hex.Hex fails to parse the file in program or verify, no
\* driver call has been issued.
C13_ParseBeforeHardware ==
    MalformedImage => calls = <<>>

UnsupportedOperation ==
    \/ cmd \in {"pinresetenable", "readtofile"}
    \/ cmd = "program" /\ (args.sectorserase \/ args.sectorsanduicrerase)

EraseOps == {"erase_all", "erase_page", "erase_uicr"}
WriteOps == {"write", "write_u32"}

DevIdx == IF Idx("connect_to_device") = {} THEN 0
          ELSE CHOOSE i \in Idx("connect_to_device") : TRUE

\* What verify has done so far: the reads issued are those of the segments
\* in file order, one each; a read that returns bytes differing from the
\* segment's data is the last call and ends the command with the
\* verification error, so every read before it matched; the command
\* succeeds only with every segment read and matching; and no write, erase,
\* reset, go or recover has been issued.
VerifyReadsInOrder ==
    /\ \A i \in DOMAIN calls :
          calls[i].op \notin EraseOps \cup WriteOps \cup ResetOps \cup {"go", "recover"}
    /\ \A i \in Idx("read") :
          LET k == i - DevIdx
          IN /\ k >= 1 /\ k <= Len(segs)
             /\ calls[i].a = <<segs[k].address, Len(segs[k].data)>>
             /\ (calls[i].r = "ok" /\ Differ(calls[i].d, segs[k].data)) =>
                   /\ i = Len(calls)
                   /\ pc = "done"
                   /\ exc = VerifyFailed
             /\ (\E j \in Idx("read") : j > i) =>
                   /\ calls[i].r = "ok"
                   /\ calls[i].d = segs[k].data
    /\ Succeeded =>
          /\ Cardinality(Idx("read")) = Len(segs)
          /\ \A i \in Idx("read") : calls[i].r = "ok" /\ calls[i].d = segs[i - DevIdx].data
    /\ exc = VerifyFailed =>
          /\ calls[Len(calls)].op = "read"
          /\ calls[Len(calls)].r = "ok"

\* C15: every step of verify leaves the target memory as it was and keeps
\* VerifyReadsInOrder: segments are read and compared in sequence order,
\* nothing is written, erased or reset, the first mismatch fails the
\* command, and success means every segment's read-back equals its data.
C15_VerifyOnlyReads ==
    [][cmd = "verify" => (mem' = mem /\ VerifyReadsInOrder')]_vars

C15_Witness ==
    /\ cmd = "verify"
    /\ exc = VerifyFailed
    /\ Cardinality(Idx("read")) = 2
    /\ Len(calls[Len(calls)].d) = 2

\* C16: once _setup has returned, self.api keeps naming the same handle, of
\* the same family; no further handle is created; and every driver call
\* issued from then on is issued on that handle.
C16_SessionPinned ==
    [][SetupReturned =>
          /\ nrf'.api = nrf.api
          /\ Len(handles') = Len(handles)
          /\ handles'[nrf.api].family = handles[nrf.api].family
          /\ Len(calls') > Len(calls) => calls'[Len(calls')].h = nrf.api]_vars

C16_Witness ==
    /\ SetupReturned
    /\ handles[nrf.api].family = "NRF52"
    /\ cmd = "reset"
    /\ Succeeded

\* C17: connect_to_device is issued only on a handle that is open and whose
\* probe connect returned, and once _setup has returned it has been issued
\* exactly once, on the handle _setup returned, after which it returned.
C17_TargetConnectAfterProbe ==
    /\ \A i \in Idx("connect_to_device") :
          /\ \E j \in 1..(i - 1) :
                /\ calls[j].op \in ConnectOps
                /\ calls[j].h = calls[i].h
                /\ calls[j].r = "ok"
          /\ \A j \in 1..(i - 1) : ~(calls[j].op = "close" /\ calls[j].h = calls[i].h)
    /\ SetupReturned =>
          /\ Cardinality(Idx("connect_to_device")) = 1
          /\ calls[DevIdx].h = nrf.api
          /\ calls[DevIdx].r = "ok"

C17_Witness ==
    /\ SetupReturned
    /\ nrf.api = 2
    /\ calls[DevIdx].h = 2
    /\ CloseCalls(1) = 1
    /\ pc = BodyPc(cmd)

\* Calls of program issued on each segment: read, write, and the verify
\* read when verification is on.
SegCalls == IF args.verify THEN 3 ELSE 2

\* C18: in program, erase_all is issued only as the first call of the body,
\* before any read; the reads and writes are, in order, read, write and
\* (with verify) read of segment 1, then those of segment 2, and so on, each
\* issued only after the one before returned and passed its check; a reset
\* is issued only after the last call of the last segment, with every
\* earlier call returned, and go only directly after a reset that returned;
\* so a failed programming run has no reset and no go.
C18_ProgramPhases ==
    (cmd = "program" /\ SetupReturned) =>
       LET dev == DevIdx
           last == Len(calls)
           first == IF last > dev /\ calls[dev + 1].op = "erase_all"
                    THEN dev + 1 ELSE dev
           n == SegCalls
       IN /\ \A j \in (dev + 1)..(last - 1) : calls[j].r = "ok"
          /\ \A i \in (dev + 1)..last :
                LET c == calls[i]
                    k == ((i - first - 1) \div n) + 1
                    slot == (i - first - 1) % n
                IN /\ c.op = "erase_all" => i = dev + 1 /\ args.eraseall
                   /\ c.op \in {"read", "write"} =>
                         /\ i > first
                         /\ k <= Len(segs)
                         /\ c.op = (IF slot = 1 THEN "write" ELSE "read")
                         /\ c.a = (IF slot = 1 THEN <<segs[k].address, 1>>
                                   ELSE <<segs[k].address, Len(segs[k].data)>>)
                         /\ slot = 0 /\ i < last => AllFF(c.d)
                         /\ slot = 1 => c.d = segs[k].data
                         /\ slot = 2 /\ i < last => c.d = segs[k].data
                   /\ c.op \in ResetOps => i = first + n * Len(segs) + 1
                   /\ c.op = "go" => calls[i - 1].op \in ResetOps
          /\ (exc # NoExc /\ calls[last].op \in {"read", "write", "erase_all"}) =>
                \A i \in DOMAIN calls : calls[i].op \notin ResetOps \cup {"go"}

C18_Witness ==
    /\ cmd = "program"
    /\ Succeeded
    /\ args.verify
    /\ Len(segs) = 2
    /\ Idx("erase_all") # {}
    /\ Idx("go") # {}
    /\ Cardinality(Idx("read")) = 4

\* C19: once the erase command has issued its erase primitive, it has issued
\* exactly one: erase_page at the given address when a page is given (the
\* option is not None), else erase_uicr when the UICR option is set, else
\* erase_all.
C19_ErasePriority ==
    (cmd = "erase" /\ \E i \in DOMAIN calls : calls[i].op \in EraseOps) =>
       /\ Cardinality({i \in DOMAIN calls : calls[i].op \in EraseOps}) = 1
       /\ LET c == calls[CHOOSE i \in DOMAIN calls : calls[i].op \in EraseOps]
          IN IF args.erasepage # None
             THEN c.op = "erase_page" /\ c.a = <<args.erasepage>>
             ELSE IF args.eraseuicr THEN c.op = "erase_uicr"
             ELSE c.op = "erase_all"

\* C20: memwr issues at most one write_u32 and never one with the flash
\* flag off to an address below 0x80000.  Once its branch has run: with the
\* flash option the write was issued with the flag on, whatever the address;
\* without it, an address below 0x80000 ended the command with the
\* assertion error and no write, and any other address was written with the
\* flag off.
C20_MemwrGuard ==
    cmd = "memwr" =>
       /\ Cardinality(Idx("write_u32")) <= 1
       /\ \A i \in Idx("write_u32") :
             calls[i].a[3] = 0 => calls[i].a[1] >= FlashLimit
       /\ (SetupReturned /\ pc # "memwr") =>
             IF args.flash
             THEN \E i \in Idx("write_u32") : calls[i].a = <<args.addr, args.val, 1>>
             ELSE IF args.addr < FlashLimit
             THEN /\ Idx("write_u32") = {}
                  /\ pc = "done"
                  /\ exc.type = "AssertionError"
             ELSE \E i \in Idx("write_u32") : calls[i].a = <<args.addr, args.val, 0>>

C20_Witness ==
    /\ cmd = "memwr"
    /\ SetupReturned
    /\ ~args.flash
    /\ args.addr = FlashLimit - 1
    /\ pc = "done"
    /\ exc # NoExc
    /\ Idx("write_u32") = {}

====
